---- MODULE Spec2Model ----
(***************************************************************************)
(* Model of remoteauth_jni_android_platform.rs: the registry of            *)
(* JavaPlatform objects (HANDLE_MAPPING), the per-platform table of        *)
(* pending requests (map_futures), send_request and the two completion     *)
(* entry points the foreign runtime calls.                                 *)
(*                                                                         *)
(* Tasks: Creators run JavaPlatform::create, Callers run send_request,     *)
(* Dispatchers are foreign-runtime threads entering the native_on_* entry  *)
(* points.  A step of the model runs a task from one await point (or       *)
(* shared-state access) to the next.                                       *)
(***************************************************************************)
EXTENDS Integers, Sequences, FiniteSets, TLC

\* ---- bounds of the model ----
MaxPlatforms == 2      \* number of JavaPlatform::create calls
MaxCalls == 2          \* number of send_request calls
MaxDeliveries == 2     \* entry-point invocations, each on its own foreign thread
MaxHandle == 1         \* completions carry response handles 0..MaxHandle

Creators == 1..MaxPlatforms
Callers == 1..MaxCalls
Dispatchers == 1..MaxDeliveries

\* Task identities, used as lock holders.
NoTask == <<"none", 0>>
CallerTask(c) == <<"caller", c>>
DispatcherTask(d) == <<"dispatcher", d>>

\* Values of the model.
NoHandle == 0 - 1
NoPlatform == 0 * MaxPlatforms
PlatformHandles == 0..(MaxPlatforms - 1)
ResponseHandles == 0..MaxHandle
EmptyMap == [x \in {} |-> 0]

NoResult == [tag |-> "none", val |-> <<>>]
Ok(b) == [tag |-> "Ok", val |-> b]
\* anyhow!("JNI: Failed to attach current thread: ...")
ErrInvocation == [tag |-> "ErrInvocation", val |-> <<>>]
\* anyhow!("... failed in awaiting for a result")
ErrAwaiting == [tag |-> "ErrAwaiting", val |-> <<>>]

VARIABLES
    HANDLE_RN,        \* the process-wide platform handle counter
    HANDLE_MAPPING,   \* registry: platform handle -> platform object (its creator)
    regLock,          \* holder of the HANDLE_MAPPING mutex
    cpc,              \* creator -> position in JavaPlatform::create
    chandle,          \* creator -> platform handle it obtained
    platLock,         \* platform -> holder of its Arc<Mutex<JavaPlatform>>
    mapLock,          \* platform -> holder of its map_futures mutex
    atomic_handle,    \* platform -> response handle counter
    map_futures,      \* platform -> (response handle -> sender of a call's channel)
    pc,               \* caller -> position in send_request
    target,           \* caller -> platform it calls
    rhandle,          \* caller -> response handle it allocated
    invoked,          \* caller -> what became of its foreign invocation
    result,           \* caller -> what send_request returned
    buf,              \* channel (one per call) -> buffered values
    tx,               \* channel -> where its only sender is
    rx,               \* channel -> is the receiver alive
    dpc,              \* dispatcher -> position in the entry point
    dargs,            \* dispatcher -> arguments of its invocation
    dplat,            \* dispatcher -> platform it resolved
    taken,            \* dispatcher -> the sender its handler removed from the table
    outcome,          \* dispatcher -> how its invocation ended
    nSuccess          \* call -> success completions handled for its (platform, handle)

regVars == <<HANDLE_RN, HANDLE_MAPPING, regLock, cpc, chandle>>
platVars == <<platLock, mapLock, atomic_handle, map_futures>>
callVars == <<pc, target, rhandle, invoked, result>>
chanVars == <<buf, tx, rx>>
dispVars == <<dpc, dargs, dplat, taken, outcome, nSuccess>>
vars == <<regVars, platVars, callVars, chanVars, dispVars>>

NoArgs == [kind |-> "none", ph |-> NoHandle, rh |-> NoHandle, payload |-> <<>>]

Init ==
    /\ HANDLE_RN = 0
    /\ HANDLE_MAPPING = EmptyMap
    /\ regLock = NoTask
    /\ cpc = [k \in Creators |-> "idle"]
    /\ chandle = [k \in Creators |-> NoHandle]
    /\ platLock = [k \in Creators |-> NoTask]
    /\ mapLock = [k \in Creators |-> NoTask]
    /\ atomic_handle = [k \in Creators |-> 0]
    /\ map_futures = [k \in Creators |-> EmptyMap]
    /\ pc = [c \in Callers |-> "idle"]
    /\ target = [c \in Callers |-> NoPlatform]
    /\ rhandle = [c \in Callers |-> NoHandle]
    /\ invoked = [c \in Callers |-> "none"]
    /\ result = [c \in Callers |-> NoResult]
    /\ buf = [c \in Callers |-> <<>>]
    /\ tx = [c \in Callers |-> "none"]
    /\ rx = [c \in Callers |-> FALSE]
    /\ dpc = [d \in Dispatchers |-> "idle"]
    /\ dargs = [d \in Dispatchers |-> NoArgs]
    /\ dplat = [d \in Dispatchers |-> NoPlatform]
    /\ taken = [d \in Dispatchers |-> {}]
    /\ outcome = [d \in Dispatchers |-> "none"]
    /\ nSuccess = [c \in Callers |-> 0]

\* ---- HashMap operations ----

\* Faulty variant of insert: the map is replaced by the new entry alone.
MapInsertAlone(m, key, val) == [x \in {key} |-> val]

\* HashMap::insert(key, val)
MapInsert(m, key, val) ==
    [x \in DOMAIN m \cup {key} |-> IF x = key THEN val ELSE m[x]]

\* Faulty variants of remove: a lookup that leaves the entry in place, and
\* one that drains every key up to the given one.
MapRemoveKeep(m, key) == m

MapRemoveUpTo(m, key) == [x \in {y \in DOMAIN m : y > key} |-> m[x]]

\* HashMap::remove(&key): the map it leaves ...
MapRemove(m, key) == [x \in DOMAIN m \ {key} |-> m[x]]

\* Faulty variant: the first entry is returned whatever the key.
RemovedFirst(m, key) ==
    IF DOMAIN m = {} THEN {}
    ELSE {m[CHOOSE x \in DOMAIN m : \A y \in DOMAIN m : x <= y]}

\* ... and the Option it returns, as a set with at most one element
Removed(m, key) == IF key \in DOMAIN m THEN {m[key]} ELSE {}

\* Faulty variant: a lookup that falls back to the first entry.
MapGetOrFirst(m, key) ==
    IF key \in DOMAIN m THEN {m[key]}
    ELSE IF DOMAIN m = {} THEN {}
    ELSE {m[CHOOSE x \in DOMAIN m : \A y \in DOMAIN m : x <= y]}

\* HashMap::get(&key)
MapGet(m, key) == IF key \in DOMAIN m THEN {m[key]} ELSE {}

\* response.to_vec(): a copy of the byte slice
to_vec(bytes) == [i \in 1..Len(bytes) |-> bytes[i]]

\* ---- JavaPlatform::create ----

\* Faulty variant: the handle is the size of the registry.
registry_size == Cardinality(DOMAIN HANDLE_MAPPING)

\* HANDLE_RN.fetch_add(1, SeqCst): returns the old value
generate_platform_handle == HANDLE_RN

\* env.get_java_vm()? fails before a handle is taken, or the handle is taken.
CreateBegin(k) ==
    /\ cpc[k] = "idle"
    /\ \A j \in Creators : j < k => cpc[j] # "idle"
    /\ \/ /\ cpc' = [cpc EXCEPT ![k] = "failed"]
          /\ UNCHANGED <<HANDLE_RN, chandle>>
       \/ /\ chandle' = [chandle EXCEPT ![k] = generate_platform_handle]
          /\ HANDLE_RN' = HANDLE_RN + 1
          /\ cpc' = [cpc EXCEPT ![k] = "new"]
    /\ UNCHANGED <<HANDLE_MAPPING, regLock, platVars, callVars, chanVars, dispVars>>

\* get_static_ref().ok_or(..)? and JavaPlatform::new(..)?: either fails and
\* create returns the error with the handle spent, or the platform is built.
CreateNew(k) ==
    /\ cpc[k] = "new"
    /\ \/ cpc' = [cpc EXCEPT ![k] = "failed"]
       \/ cpc' = [cpc EXCEPT ![k] = "insert"]
    /\ UNCHANGED <<HANDLE_RN, HANDLE_MAPPING, regLock, chandle,
                   platVars, callVars, chanVars, dispVars>>

\* HANDLE_MAPPING.lock().await.insert(handle, item); the guard is a temporary
\* of the statement, so lock, insert and unlock are one step; create returns.
insert_platform_handle(k) ==
    /\ cpc[k] = "insert"
    /\ regLock = NoTask
    /\ HANDLE_MAPPING' = MapInsert(HANDLE_MAPPING, chandle[k], k)
    /\ cpc' = [cpc EXCEPT ![k] = "done"]
    /\ UNCHANGED <<HANDLE_RN, regLock, chandle, platVars, callVars, chanVars, dispVars>>

\* ---- send_request ----

\* The caller holds Arc<Mutex<impl Platform>> from create; send_request takes
\* &mut self, so the caller first asks for the platform's mutex.
CallSendRequest(c, k) ==
    /\ pc[c] = "idle"
    /\ \A b \in Callers : b < c => pc[b] # "idle"
    /\ cpc[k] = "done"
    /\ pc' = [pc EXCEPT ![c] = "lock"]
    /\ target' = [target EXCEPT ![c] = k]
    /\ UNCHANGED <<rhandle, invoked, result, regVars, platVars, chanVars, dispVars>>

\* Faulty variant: the counter is read but not advanced.
SendRequestAllocLoad(c) ==
    /\ pc[c] = "lock"
    /\ platLock[target[c]] = NoTask
    /\ platLock' = [platLock EXCEPT ![target[c]] = CallerTask(c)]
    /\ rhandle' = [rhandle EXCEPT ![c] = atomic_handle[target[c]]]
    /\ tx' = [tx EXCEPT ![c] = "caller"]
    /\ rx' = [rx EXCEPT ![c] = TRUE]
    /\ pc' = [pc EXCEPT ![c] = "insert"]
    /\ UNCHANGED <<target, invoked, result, buf, mapLock, map_futures, atomic_handle,
                   regVars, dispVars>>

\* The mutex is granted; mpsc::channel(1) and atomic_handle.fetch_add(1).
SendRequestAlloc(c) ==
    /\ pc[c] = "lock"
    /\ platLock[target[c]] = NoTask
    /\ platLock' = [platLock EXCEPT ![target[c]] = CallerTask(c)]
    /\ rhandle' = [rhandle EXCEPT ![c] = atomic_handle[target[c]]]
    /\ atomic_handle' = [atomic_handle EXCEPT ![target[c]] = @ + 1]
    /\ tx' = [tx EXCEPT ![c] = "caller"]
    /\ rx' = [rx EXCEPT ![c] = TRUE]
    /\ pc' = [pc EXCEPT ![c] = "insert"]
    /\ UNCHANGED <<target, invoked, result, buf, mapLock, map_futures, regVars, dispVars>>

\* self.map_futures.lock().await.insert(response_handle, tx)
SendRequestInsert(c) ==
    /\ pc[c] = "insert"
    /\ mapLock[target[c]] = NoTask
    /\ map_futures' = [map_futures EXCEPT
                         ![target[c]] = MapInsert(@, rhandle[c], c)]
    /\ tx' = [tx EXCEPT ![c] = "map"]
    /\ pc' = [pc EXCEPT ![c] = "invoke"]
    /\ UNCHANGED <<target, rhandle, invoked, result, buf, rx,
                   platLock, mapLock, atomic_handle, regVars, dispVars>>

\* send_request returns: rx is dropped and the caller's guard on the platform
\* is released.
Return(c, res) ==
    /\ result' = [result EXCEPT ![c] = res]
    /\ rx' = [rx EXCEPT ![c] = FALSE]
    /\ platLock' = [platLock EXCEPT ![target[c]] = NoTask]
    /\ pc' = [pc EXCEPT ![c] = "done"]

\* attach_current_thread().and_then(|env| ..).map_err(..)?
\*   attach or byte_array_from_slice fails: the error is returned;
\*   call_method_unchecked: its result is discarded (let _ =), so both a call
\*   that went through and a call that returned an error lead to rx.recv().
SendRequestInvoke(c) ==
    /\ pc[c] = "invoke"
    /\ \/ /\ invoked' = [invoked EXCEPT ![c] = "attach_error"]
          /\ Return(c, ErrInvocation)
       \/ /\ \E how \in {"sent", "call_error"} :
                invoked' = [invoked EXCEPT ![c] = how]
          /\ pc' = [pc EXCEPT ![c] = "recv"]
          /\ UNCHANGED <<result, rx, platLock>>
    /\ UNCHANGED <<target, rhandle, buf, tx, mapLock, atomic_handle, map_futures,
                   regVars, dispVars>>

\* rx.recv().await.ok_or(anyhow!(..)): a buffered value, or None once the
\* channel is empty and its sender is gone; otherwise the call stays suspended.
RecvReady(c) == buf[c] # <<>> \/ tx[c] = "dropped"

Recv(c) ==
    /\ RecvReady(c)
    /\ IF buf[c] # <<>>
          THEN /\ Return(c, Ok(Head(buf[c])))
               /\ buf' = [buf EXCEPT ![c] = Tail(@)]
          ELSE /\ Return(c, ErrAwaiting)
               /\ UNCHANGED buf
    /\ UNCHANGED <<target, rhandle, invoked, tx, mapLock, atomic_handle, map_futures,
                   regVars, dispVars>>

\* The caller drops the suspended send_request future (a timeout of the
\* surrounding system): rx and the guard on the platform go with it.
Abandon(c) ==
    /\ rx' = [rx EXCEPT ![c] = FALSE]
    /\ platLock' = [platLock EXCEPT ![target[c]] = NoTask]
    /\ pc' = [pc EXCEPT ![c] = "abandoned"]
    /\ UNCHANGED <<target, rhandle, invoked, result, buf, tx, mapLock, atomic_handle,
                   map_futures, regVars, dispVars>>

\* The suspension point of send_request: the future resumes with what
\* rx.recv() yields, or it is dropped while it waits.  (The caller holds the
\* platform's mutex here and every handler needs it, so no reachable state
\* has a value or a closed channel for a suspended call.)
SendRequestRecv(c) ==
    /\ pc[c] = "recv"
    /\ (Recv(c) \/ Abandon(c))

\* ---- completion entry points ----

\* The response bytes and the error code of an invocation; every invocation
\* brings its own.
ResponseOf(d) == <<d>>
ErrorCodeOf(d) == 40 + d

\* The foreign runtime calls native_on_send_request_success(app_response,
\* platform_handle, response_handle) or native_on_send_request_error(
\* error_code, platform_handle, response_handle) on one of its threads.
Enter(d, kind, ph, rh, payload) ==
    /\ dpc[d] = "idle"
    /\ \A e \in Dispatchers : e < d => dpc[e] # "idle"
    /\ dargs' = [dargs EXCEPT ![d] =
                    [kind |-> kind, ph |-> ph, rh |-> rh, payload |-> payload]]
    /\ dpc' = [dpc EXCEPT ![d] = "reg"]
    /\ UNCHANGED <<dplat, taken, outcome, nSuccess,
                   regVars, platVars, callVars, chanVars>>

EnterSuccess(d) ==
    \E ph \in PlatformHandles, rh \in ResponseHandles :
        Enter(d, "success", ph, rh, ResponseOf(d))

EnterError(d) ==
    \E ph \in PlatformHandles, rh \in ResponseHandles :
        Enter(d, "error", ph, rh, ErrorCodeOf(d))

\* if let Some(platform) = HANDLE_MAPPING.lock().await.get(&platform_handle):
\* the guard lives to the end of the if-let.  Found: go on to lock the
\* platform, with the registry still locked.
Resolve(d) ==
    /\ dpc[d] = "reg"
    /\ regLock = NoTask
    /\ \E k \in MapGet(HANDLE_MAPPING, dargs[d].ph) :
          dplat' = [dplat EXCEPT ![d] = k]
    /\ regLock' = DispatcherTask(d)
    /\ dpc' = [dpc EXCEPT ![d] = "plat"]
    /\ UNCHANGED <<HANDLE_RN, HANDLE_MAPPING, cpc, chandle, dargs, taken, outcome,
                   nSuccess, platVars, callVars, chanVars>>

\* else: env.throw_new(BadHandleException, ..); the guard is released.
BadHandle(d) ==
    /\ dpc[d] = "reg"
    /\ regLock = NoTask
    /\ MapGet(HANDLE_MAPPING, dargs[d].ph) = {}
    /\ outcome' = [outcome EXCEPT ![d] = "BadHandleException"]
    /\ dargs' = [dargs EXCEPT ![d] = NoArgs]
    /\ dpc' = [dpc EXCEPT ![d] = "done"]
    /\ UNCHANGED <<dplat, taken, nSuccess, regVars, platVars, callVars, chanVars>>

\* let platform = (*platform).lock().await
LockPlatform(d) ==
    /\ dpc[d] = "plat"
    /\ platLock[dplat[d]] = NoTask
    /\ platLock' = [platLock EXCEPT ![dplat[d]] = DispatcherTask(d)]
    /\ dpc' = [dpc EXCEPT ![d] = "handler"]
    /\ UNCHANGED <<mapLock, atomic_handle, map_futures, dargs, dplat, taken, outcome,
                   nSuccess, regVars, callVars, chanVars>>

\* The call, if any, that was given response handle rh on platform k.
CallOf(k, rh) == {c \in Callers : target[c] = k /\ rhandle[c] = rh}

\* The handler returns; the dispatcher drops its guards on the table, the
\* platform and the registry.
Leave(d, how) ==
    /\ outcome' = [outcome EXCEPT ![d] = how]
    /\ dargs' = [dargs EXCEPT ![d] = NoArgs]
    /\ dplat' = [dplat EXCEPT ![d] = NoPlatform]
    /\ dpc' = [dpc EXCEPT ![d] = "done"]
    /\ platLock' = [platLock EXCEPT ![dplat[d]] = NoTask]
    /\ mapLock' = [mapLock EXCEPT ![dplat[d]] = NoTask]
    /\ regLock' = NoTask

\* if let Some(tx) = self.map_futures.lock().await.remove(&response_handle)
\*   success: the sender is taken, tx.send(..).await comes next, under the
\*            table's guard;
\*   else:    error!("Failed to find TX ..").
on_send_request_success(d) ==
    LET k == dplat[d]
        rh == dargs[d].rh
        found == Removed(map_futures[k], rh)
    IN  /\ dpc[d] = "handler"
        /\ dargs[d].kind = "success"
        /\ mapLock[k] = NoTask
        /\ map_futures' = [map_futures EXCEPT ![k] = MapRemove(@, rh)]
        /\ taken' = [taken EXCEPT ![d] = found]
        /\ nSuccess' = [c \in Callers |->
                           IF c \in CallOf(k, rh) THEN nSuccess[c] + 1 ELSE nSuccess[c]]
        /\ IF found # {}
              THEN /\ mapLock' = [mapLock EXCEPT ![k] = DispatcherTask(d)]
                   /\ tx' = [c \in Callers |-> IF c \in found THEN "handler" ELSE tx[c]]
                   /\ dpc' = [dpc EXCEPT ![d] = "send"]
                   /\ UNCHANGED <<outcome, dargs, dplat, platLock, regLock>>
              ELSE /\ Leave(d, "NotFound")
                   /\ UNCHANGED tx
        /\ UNCHANGED <<HANDLE_RN, HANDLE_MAPPING, cpc, chandle, atomic_handle,
                       callVars, buf, rx>>

\* let _ = tx.send(response.to_vec()).await: an error at once when the
\* receiver is gone, the value is queued when there is room (capacity 1),
\* otherwise the send waits.  Then tx is dropped.
SendReady(c) == ~rx[c] \/ Len(buf[c]) < 1

SendResponse(d) ==
    /\ dpc[d] = "send"
    /\ \E c \in taken[d] :
          /\ SendReady(c)
          /\ buf' = [buf EXCEPT ![c] = IF rx[c] THEN Append(@, to_vec(dargs[d].payload))
                                                ELSE @]
          /\ tx' = [tx EXCEPT ![c] = "dropped"]
    /\ Leave(d, "Delivered")
    /\ UNCHANGED <<HANDLE_RN, HANDLE_MAPPING, cpc, chandle, atomic_handle, map_futures,
                   taken, nSuccess, callVars, rx>>

\* Faulty variant: one table shared by all platforms, so the handle is
\* removed from every platform's table.
on_send_request_error_shared(d) ==
    LET k == dplat[d]
        rh == dargs[d].rh
        found == Removed(map_futures[k], rh)
    IN  /\ dpc[d] = "handler"
        /\ dargs[d].kind = "error"
        /\ mapLock[k] = NoTask
        /\ map_futures' = [j \in Creators |-> MapRemove(map_futures[j], rh)]
        /\ taken' = [taken EXCEPT ![d] = found]
        /\ tx' = [c \in Callers |-> IF c \in found THEN "dropped" ELSE tx[c]]
        /\ Leave(d, IF found # {} THEN "Closed" ELSE "NotFound")
        /\ UNCHANGED <<HANDLE_RN, HANDLE_MAPPING, cpc, chandle, atomic_handle,
                       nSuccess, callVars, buf, rx>>

\* if let Some(tx) = self.map_futures.lock().await.remove(&response_handle)
\*   { drop(tx) } else { error!("Failed to find TX ..") }
on_send_request_error(d) ==
    LET k == dplat[d]
        rh == dargs[d].rh
        found == Removed(map_futures[k], rh)
    IN  /\ dpc[d] = "handler"
        /\ dargs[d].kind = "error"
        /\ mapLock[k] = NoTask
        /\ map_futures' = [map_futures EXCEPT ![k] = MapRemove(@, rh)]
        /\ taken' = [taken EXCEPT ![d] = found]
        /\ tx' = [c \in Callers |-> IF c \in found THEN "dropped" ELSE tx[c]]
        /\ Leave(d, IF found # {} THEN "Closed" ELSE "NotFound")
        /\ UNCHANGED <<HANDLE_RN, HANDLE_MAPPING, cpc, chandle, atomic_handle,
                       nSuccess, callVars, buf, rx>>

Next ==
    \/ \E k \in Creators : CreateBegin(k)
    \/ \E k \in Creators : CreateNew(k)
    \/ \E k \in Creators : insert_platform_handle(k)
    \/ \E c \in Callers, k \in Creators : CallSendRequest(c, k)
    \/ \E c \in Callers : SendRequestAlloc(c)
    \/ \E c \in Callers : SendRequestInsert(c)
    \/ \E c \in Callers : SendRequestInvoke(c)
    \/ \E c \in Callers : SendRequestRecv(c)
    \/ \E d \in Dispatchers : EnterSuccess(d)
    \/ \E d \in Dispatchers : EnterError(d)
    \/ \E d \in Dispatchers : Resolve(d)
    \/ \E d \in Dispatchers : BadHandle(d)
    \/ \E d \in Dispatchers : LockPlatform(d)
    \/ \E d \in Dispatchers : on_send_request_success(d)
    \/ \E d \in Dispatchers : SendResponse(d)
    \/ \E d \in Dispatchers : on_send_request_error(d)

Spec == Init /\ [][Next]_vars

\* ---- properties ----

\* The dispatchers whose handler removed the sender of call c from the table.
ConsumersOf(c) == {d \in Dispatchers : c \in taken[d]}

\* Call c has an entry in its platform's table.
HasEntry(c) ==
    /\ target[c] # NoPlatform
    /\ rhandle[c] \in DOMAIN map_futures[target[c]]
    /\ map_futures[target[c]][rhandle[c]] = c

\* C1: when a success completion is delivered exactly once for a response
\* handle that has a table entry, the send_request call that was given the
\* handle returns Ok with the bytes of that completion, never an error and
\* never other bytes.
C1_SuccessResolvesCall ==
    \A c \in Callers, d \in Dispatchers :
        (c \in taken[d] /\ outcome[d] = "Delivered" /\ nSuccess[c] = 1)
            => result[c] \in {NoResult, Ok(ResponseOf(d))}

\* C2: when an error completion is delivered for a response handle that has
\* a table entry, the send_request call that was given the handle returns
\* the awaiting failure, never anything else.
C2_ErrorFailsCall ==
    \A c \in Callers, d \in Dispatchers :
        (c \in taken[d] /\ outcome[d] = "Closed")
            => result[c] \in {NoResult, ErrAwaiting}

\* C3: a send_request call suspended in rx.recv() holds no lock: not the
\* registry's, not the table's, not the platform's mutex.
C3_NoLockWhileSuspended ==
    \A c \in Callers :
        pc[c] = "recv" =>
            /\ regLock # CallerTask(c)
            /\ \A k \in Creators :
                  platLock[k] # CallerTask(c) /\ mapLock[k] # CallerTask(c)

\* C4: no state is a deadlock in which an entry point, called with the
\* platform and response handle of a suspended send_request, waits for the
\* platform's mutex while the task holding that mutex waits for this
\* completion.
C4_NoDeadlock ==
    \A c \in Callers, d \in Dispatchers :
        ~ /\ pc[c] = "recv"
          /\ ~RecvReady(c)
          /\ platLock[target[c]] = CallerTask(c)
          /\ dpc[d] = "plat"
          /\ dplat[d] = target[c]
          /\ dargs[d].rh = rhandle[c]

\* C5: a send_request call is never kept waiting by another call on the
\* same platform that is suspended awaiting its completion.
C5_NoWaitBehindSuspendedCall ==
    \A c1, c2 \in Callers :
        ~ /\ c1 # c2
          /\ pc[c1] = "recv"
          /\ pc[c2] = "lock"
          /\ target[c2] = target[c1]
          /\ platLock[target[c1]] = CallerTask(c1)

\* C6: a completion handled for (platform, response handle) touches only
\* the call that was given this handle on this platform: the channel, the
\* table entry, the position and the result of every other call stay as
\* they are; and a call returns only bytes a success completion delivered
\* to its own entry.
C6_StepTouchesOwnCallOnly ==
    \A d \in Dispatchers :
        (dpc[d] \in {"handler", "send"} /\ dpc'[d] # dpc[d]) =>
            \A c \in Callers \ CallOf(dplat[d], dargs[d].rh) :
                /\ buf'[c] = buf[c]
                /\ tx'[c] = tx[c]
                /\ rx'[c] = rx[c]
                /\ pc'[c] = pc[c]
                /\ result'[c] = result[c]
                /\ HasEntry(c)' = HasEntry(c)

C6_OwnBytesOnly ==
    \A c \in Callers :
        result[c].tag = "Ok" =>
            \E d \in ConsumersOf(c) : result[c].val = ResponseOf(d)

C6_OwnCompletionOnly ==
    [][C6_StepTouchesOwnCallOnly /\ C6_OwnBytesOnly']_vars

C6_Witness ==
    \E c1, c2 \in Callers :
        /\ target[c1] = target[c2]
        /\ rhandle[c1] # NoHandle
        /\ rhandle[c1] < rhandle[c2]
        /\ ConsumersOf(c2) # {}
        /\ ConsumersOf(c1) = {}
        /\ HasEntry(c1)
        /\ tx[c1] = "map"

\* C7: of the success and error completions handled for one response
\* handle, exactly one finds and removes the table entry; the entry is
\* consumed at most once and its channel gets that one outcome only.
C7_ConsumedOnce ==
    \A c \in Callers :
        /\ Cardinality(ConsumersOf(c)) <= 1
        /\ nSuccess[c] >= 1 => Cardinality(ConsumersOf(c)) = 1
        /\ \A d \in ConsumersOf(c) :
              /\ ~HasEntry(c)
              /\ outcome[d] = "Closed" => (tx[c] = "dropped" /\ buf[c] = <<>>)
              /\ outcome[d] = "Delivered" =>
                    (tx[c] = "dropped" /\ buf[c] \in {<<>>, <<ResponseOf(d)>>})

C7_Witness ==
    \E c \in Callers, d1, d2 \in Dispatchers :
        /\ d1 # d2
        /\ c \in taken[d1]
        /\ outcome[d1] = "Closed"
        /\ outcome[d2] = "NotFound"
        /\ nSuccess[c] = 1

\* C8: a completion whose response handle has no entry in the table of the
\* resolved platform ends with the diagnostic only: the table, the registry,
\* both handle counters, every channel and every call's position and result
\* stay as they are, and no exception is raised.
C8_StepOfUnknownHandle ==
    \A d \in Dispatchers :
        ( /\ dpc[d] = "handler"
          /\ dpc'[d] # "handler"
          /\ dargs[d].rh \notin DOMAIN map_futures[dplat[d]] ) =>
            /\ outcome'[d] = "NotFound"
            /\ UNCHANGED <<map_futures, HANDLE_MAPPING, HANDLE_RN, atomic_handle>>
            /\ UNCHANGED <<pc, result, invoked, rhandle, buf, tx, rx>>

C8_UnknownHandleChangesNothing == [][C8_StepOfUnknownHandle]_vars

C8_Witness ==
    \E c \in Callers, d \in Dispatchers :
        /\ nSuccess[c] = 2
        /\ outcome[d] = "NotFound"
        /\ ConsumersOf(c) # {}

\* C9: once send_request has returned the invocation failure, the table
\* has no entry for the response handle the call allocated.
C9_NoEntryAfterInvocationFailure ==
    \A c \in Callers : result[c] = ErrInvocation => ~HasEntry(c)

\* C10: when the call of the foreign send method returns an error,
\* send_request does not go on to the suspension point.
C10_FailedCallDoesNotWait ==
    \A c \in Callers : invoked[c] = "call_error" => pc[c] \notin {"recv", "abandoned"}

\* C11: an entry point called with a platform handle that is not a key of
\* the registry raises BadHandleException and nothing else changes: no
\* lock is taken, no table, channel or counter is touched and no call is
\* resolved or failed, whatever the response handle.
C11_StepOfUnknownPlatform ==
    \A d \in Dispatchers :
        ( /\ dpc[d] = "reg"
          /\ dpc'[d] # "reg"
          /\ dargs[d].ph \notin DOMAIN HANDLE_MAPPING ) =>
            /\ outcome'[d] = "BadHandleException"
            /\ dpc'[d] = "done"
            /\ taken'[d] = {}
            /\ UNCHANGED <<regVars, platVars, callVars, chanVars>>

C11_UnknownPlatformChangesNothing == [][C11_StepOfUnknownPlatform]_vars

C11_Witness ==
    \E d \in Dispatchers, c \in Callers :
        /\ outcome[d] = "BadHandleException"
        /\ HasEntry(c)
        /\ pc[c] = "recv"

\* C12: on each platform the response handles given to send_request calls
\* are 0, 1, 2, ... in the order of allocation: the n-th allocation gets
\* n-1, above every handle given before, and no two calls on one platform
\* have the same handle.
AllocatedOn(k) == {c \in Callers : target[c] = k /\ rhandle[c] # NoHandle}

C12_StepAllocatesNext ==
    \A c \in Callers :
        (rhandle[c] = NoHandle /\ rhandle'[c] # NoHandle) =>
            /\ rhandle'[c] = Cardinality(AllocatedOn(target[c]))
            /\ \A b \in AllocatedOn(target[c]) : rhandle[b] < rhandle'[c]

C12_Distinct ==
    \A k \in Creators :
        /\ \A b, c \in AllocatedOn(k) : b # c => rhandle[b] # rhandle[c]
        /\ {rhandle[c] : c \in AllocatedOn(k)} = 0..(atomic_handle[k] - 1)

C12_ResponseHandlesIncrease == [][C12_StepAllocatesNext /\ C12_Distinct']_vars

C12_Witness ==
    \E b, c \in Callers :
        /\ target[b] = target[c]
        /\ rhandle[b] = 0
        /\ rhandle[c] = 1

\* C13: the platform handles given to create calls are pairwise distinct,
\* also the one of a create call that failed before it registered, and a
\* registration never lands on a key the registry already has.
Issued == {k \in Creators : chandle[k] # NoHandle}

C13_StepRegistersFreshKey ==
    \A h \in DOMAIN HANDLE_MAPPING' \ DOMAIN HANDLE_MAPPING :
        \E k \in Creators :
            cpc[k] = "insert" /\ chandle[k] = h /\ HANDLE_MAPPING'[h] = k

C13_Distinct ==
    /\ \A j, k \in Issued : j # k => chandle[j] # chandle[k]
    /\ \A k \in Issued : chandle[k] < HANDLE_RN
    /\ \A h \in DOMAIN HANDLE_MAPPING : chandle[HANDLE_MAPPING[h]] = h

C13_StepKeepsEntries ==
    \A k \in Creators :
        (cpc[k] = "insert" /\ cpc'[k] = "done") =>
            chandle[k] \notin DOMAIN HANDLE_MAPPING

C13_PlatformHandlesDistinct ==
    [][C13_StepKeepsEntries /\ C13_StepRegistersFreshKey /\ C13_Distinct']_vars

C13_Witness ==
    \E j, k \in Creators :
        /\ cpc[j] = "failed"
        /\ chandle[j] # NoHandle
        /\ cpc[k] = "done"
        /\ chandle[k] > chandle[j]

\* C14: a platform's table has an entry for a response handle exactly when
\* the send_request call that was given the handle is on its way to, or
\* suspended at, the receive on its channel.
C14_EntryIffSuspendedCaller ==
    \A c \in Callers : HasEntry(c) <=> pc[c] \in {"invoke", "recv"}

\* C15: the registry only grows: an entry, once there, stays and keeps its
\* platform; every platform a create call has returned is in the registry
\* under the handle the call took.
C15_StepKeepsRegistry ==
    \A h \in DOMAIN HANDLE_MAPPING :
        /\ h \in DOMAIN HANDLE_MAPPING'
        /\ HANDLE_MAPPING'[h] = HANDLE_MAPPING[h]

C15_Registered ==
    \A k \in Creators :
        /\ cpc[k] = "done" => MapGet(HANDLE_MAPPING, chandle[k]) = {k}
        /\ cpc[k] # "done" => \A h \in DOMAIN HANDLE_MAPPING : HANDLE_MAPPING[h] # k

C15_RegistryOnlyGrows == [][C15_StepKeepsRegistry /\ C15_Registered']_vars

C15_Witness ==
    /\ Cardinality(DOMAIN HANDLE_MAPPING) = 2
    /\ \E d \in Dispatchers, k \in Creators :
          /\ dpc[d] = "handler"
          /\ dplat[d] = k
          /\ chandle[k] = dargs[d].ph
          /\ chandle[k] = 0

\* C16: the entry is in the table before the foreign invocation is issued,
\* so a success completion called with the platform and response handle of
\* an issued invocation is never kept from the entry by the call that waits
\* for it: its value reaches the call.
C16_EarlyCompletionReachesCall ==
    \A c \in Callers, d \in Dispatchers :
        ( /\ invoked[c] = "sent"
          /\ pc[c] = "recv"
          /\ HasEntry(c)
          /\ dargs[d].kind = "success"
          /\ dargs[d].ph = chandle[target[c]]
          /\ dargs[d].rh = rhandle[c]
          /\ dpc[d] = "plat" ) =>
            platLock[target[c]] # CallerTask(c)

\* C17: a completion handled for platform A touches A only: the table, the
\* counter and the locks of every other platform, and the calls made on
\* other platforms, stay as they are, also when they have the same response
\* handle outstanding.
C17_StepTouchesOwnPlatformOnly ==
    \A d \in Dispatchers :
        (dpc[d] \in {"handler", "send"} /\ dpc'[d] # dpc[d]) =>
            /\ \A j \in Creators \ {dplat[d]} :
                  /\ map_futures'[j] = map_futures[j]
                  /\ atomic_handle'[j] = atomic_handle[j]
                  /\ platLock'[j] = platLock[j]
                  /\ mapLock'[j] = mapLock[j]
            /\ \A c \in Callers :
                  target[c] # dplat[d] =>
                      /\ pc'[c] = pc[c]
                      /\ result'[c] = result[c]
                      /\ buf'[c] = buf[c]
                      /\ tx'[c] = tx[c]
                      /\ rx'[c] = rx[c]

C17_HandlesScopedToPlatform == [][C17_StepTouchesOwnPlatformOnly]_vars

C17_Witness ==
    \E a, b \in Callers :
        /\ target[a] # target[b]
        /\ rhandle[a] = rhandle[b]
        /\ rhandle[a] # NoHandle
        /\ ConsumersOf(a) # {}
        /\ HasEntry(b)
        /\ pc[b] = "recv"

\* C18: a completion for a response handle whose send_request call is no
\* longer waiting (it returned the invocation failure, or its caller dropped
\* it) changes no call's position or result, raises no exception, leaves no
\* entry for the handle behind, and is not kept waiting.
LateFor(d) ==
    {c \in Callers : /\ target[c] # NoPlatform
                     /\ dargs[d].ph = chandle[target[c]]
                     /\ dargs[d].rh = rhandle[c]
                     /\ pc[c] \in {"done", "abandoned"}}

C18_StepOfLateCompletion ==
    \A d \in Dispatchers :
        (LateFor(d) # {} /\ dpc'[d] # dpc[d]) =>
            /\ UNCHANGED <<pc, result>>
            /\ outcome'[d] # "BadHandleException"
            /\ dpc'[d] = "done" => \A c \in LateFor(d) : ~HasEntry(c)'

C18_NotKeptWaiting ==
    \A d \in Dispatchers :
        (LateFor(d) # {} /\ dpc[d] = "plat") =>
            \A b \in Callers :
                ~ /\ platLock[dplat[d]] = CallerTask(b)
                  /\ pc[b] = "recv"
                  /\ ~RecvReady(b)

C18_LateCompletionTolerated ==
    [][C18_StepOfLateCompletion /\ C18_NotKeptWaiting']_vars

\* C19: a channel's sender is used for at most one send and the channel
\* never holds more than one value; the success handler sends while it holds
\* the registry's, the platform's and the table's lock, and the send finds
\* room in the channel (or the receiver gone), so it does not wait.
SendersOf(c) ==
    {d \in Dispatchers : c \in taken[d] /\ (dpc[d] = "send" \/ outcome[d] = "Delivered")}

C19_SendNeverWaits ==
    /\ \A c \in Callers :
          /\ Len(buf[c]) <= 1
          /\ Cardinality(SendersOf(c)) <= 1
          /\ tx[c] = "map" <=> HasEntry(c)
    /\ \A d \in Dispatchers :
          dpc[d] = "send" =>
              /\ regLock = DispatcherTask(d)
              /\ platLock[dplat[d]] = DispatcherTask(d)
              /\ mapLock[dplat[d]] = DispatcherTask(d)
              /\ Cardinality(taken[d]) = 1
              /\ \A c \in taken[d] :
                    /\ tx[c] = "handler"
                    /\ (Len(buf[c]) < 1 \/ ~rx[c])

C19_Witness ==
    \E d \in Dispatchers, c \in Callers :
        /\ dpc[d] = "send"
        /\ c \in taken[d]
        /\ regLock = DispatcherTask(d)
        /\ mapLock[dplat[d]] = DispatcherTask(d)

\* C20: the registry's lock is never held by a task that is kept waiting
\* for a platform's mutex.
C20_RegistryFreeWhileWaiting ==
    \A d \in Dispatchers :
        (dpc[d] = "plat" /\ platLock[dplat[d]] # NoTask) =>
            regLock # DispatcherTask(d)
====
